---- MODULE Spec2Model ----
(***************************************************************************)
(* The account subsystem of thinkster_django_angular_boilerplate:          *)
(*   authentication/models.py       Account, AccountManager                *)
(*   authentication/serializers.py  AccountSerializer                      *)
(*   authentication/views.py        AccountViewSet                         *)
(* The account table, the manager's create_user / create_superuser, the    *)
(* serializer's update and the viewset's request handlers are modelled as  *)
(* one state machine.  Framework calls the source makes (Model.save,       *)
(* set_password, update_session_auth_hash, the permission check, the       *)
(* serializer's field construction) are modelled by what they do for the   *)
(* arguments the source passes.                                            *)
(***************************************************************************)
EXTENDS Integers, FiniteSets, Sequences, TLC

VARIABLES
    accounts,   \* the rows of the Account table (a set of account records)
    nextId,     \* the next primary key the table assigns
    now,        \* the clock read by DateTimeField(auto_now / auto_now_add)
    nsalt,      \* how many salts of the password hasher are in stored hashes
    sessions,   \* session id -> [user, hash]: the logged-in sessions
    last        \* the last operation: its inputs, its outcome, its response

vars == <<accounts, nextId, now, nsalt, sessions, last>>

----------------------------------------------------------------------------
(* Bounds of the model *)

\* the clock stops the model: no operation saves once `now` has reached it
MaxTime == 4

----------------------------------------------------------------------------
(* Values *)

\* Python's None, and a key that is absent from a dict
None == "<None>"
\* an absent timestamp key
NoTs == -1
\* AnonymousUser: the user of a request that carries no valid credentials
Anonymous == 0

Usernames == {"alice", "bob"}
Passwords == {"pw1", "pw2"}
\* e-mail addresses as callers send them are the keys of EmailSplit:
\* str.rsplit('@', 1) and str.lower() on the domain part, for the addresses above
EmailSplit ==
    ("a@x.com" :> <<"a", "x.com">>) @@ ("a@X.COM" :> <<"a", "X.COM">>)
    @@ ("b@x.com" :> <<"b", "x.com">>)
Lower == ("x.com" :> "x.com") @@ ("X.COM" :> "x.com")
JoinEmail(name, domain) ==
    CHOOSE e \in DOMAIN EmailSplit : EmailSplit[e] = <<name, domain>>

\* BaseUserManager.normalize_email, as create_user calls it: the domain part
\* is lowercased, an address without '@' is returned as it is
normalize_email(email) ==
    IF email \in DOMAIN EmailSplit
    THEN JoinEmail(EmailSplit[email][1], Lower[EmailSplit[email][2]])
    ELSE email

\* Python truthiness of an optional string: None and '' are false
Falsy(x) == x = None \/ x = ""

----------------------------------------------------------------------------
(* Passwords.  A value of the password column is [alg, of, salt]: alg says   *)
(* how the column was derived from the text `of`.  alg = "plain" is the text *)
(* itself; "pbkdf2_sha256" is the salted one-way hash; "unusable" is what    *)
(* set_password(None) stores.                                               *)

Plain(raw) == [alg |-> "plain", of |-> raw, salt |-> 0]

make_password(raw, salt) ==
    IF raw = None
    THEN [alg |-> "unusable", of |-> None, salt |-> salt]
    ELSE [alg |-> "pbkdf2_sha256", of |-> raw, salt |-> salt]

\* a plausible slip: the attribute is set literally
set_password_literal(account, raw, salt) ==
    [account EXCEPT !.password = Plain(raw)]

\* AbstractBaseUser.set_password: changes the instance only, no save
set_password(account, raw, salt) ==
    [account EXCEPT !.password = make_password(raw, salt)]

\* AbstractBaseUser.check_password
check_password(account, raw) ==
    /\ account.password.alg = "pbkdf2_sha256"
    /\ account.password.of = raw

\* AbstractBaseUser.get_session_auth_hash: an HMAC of the password column
get_session_auth_hash(account) == account.password

----------------------------------------------------------------------------
(* The Account model *)

\* the columns of Account (id and password come from the base classes)
ModelFields ==
    {"id", "password", "email", "username", "fist_name", "last_name",
     "tagline", "is_admin", "created_at", "updated_at"}

\* Account(email = ..., username = ...): an unsaved instance, with the
\* columns' defaults
NewAccount(email, username) ==
    [id |-> 0, email |-> email, username |-> username, password |-> Plain(""),
     fist_name |-> "", last_name |-> "", tagline |-> "", is_admin |-> FALSE,
     created_at |-> 0, updated_at |-> 0]

\* unique=True on email and on username: the table refuses a row whose email
\* or username another row holds
UniqueOk(account, table) ==
    \A o \in table :
        o.id # account.id => o.email # account.email /\ o.username # account.username

\* a plausible slip: auto_now on created_at as well
StampedBoth(account, t, id) ==
    IF account.id = 0
    THEN [account EXCEPT !.id = id, !.created_at = t, !.updated_at = t]
    ELSE [account EXCEPT !.created_at = t, !.updated_at = t]

\* what save() writes: a new row gets its id and created_at (auto_now_add);
\* every save sets updated_at (auto_now)
Stamped(account, t, id) ==
    IF account.id = 0
    THEN [account EXCEPT !.id = id, !.created_at = t, !.updated_at = t]
    ELSE [account EXCEPT !.updated_at = t]

\* the table after a successful save of `row`
Put(table, row) == {o \in table : o.id # row.id} \cup {row}

ByUsername(username) == {a \in accounts : a.username = username}

----------------------------------------------------------------------------
(* Inputs and the record of the last operation *)

\* a dict of keyword arguments / request data / validated data: every key the
\* serializer or the manager reads; an absent key holds None (NoTs for a
\* timestamp)
NoData ==
    [email |-> None, username |-> None, password |-> None,
     confirm_password |-> None, tagline |-> None,
     created_at |-> NoTs, updated_at |-> NoTs]

Has(data, key) ==
    IF key \in {"created_at", "updated_at"} THEN data[key] # NoTs
    ELSE data[key] # None

Keys(data) == {k \in DOMAIN data : Has(data, k)}

\* a response body is a set of JSON objects (records): none, one, or a list
NoBody == {}

Done(op, exc, status, session, user, target, data, body, before) ==
    [op |-> op, exc |-> exc, status |-> status, session |-> session,
     user |-> user, target |-> target, data |-> data, body |-> body,
     before |-> before]

----------------------------------------------------------------------------
(* AccountManager *)

\* AccountManager.create_user(email, password, **kwargs) run against `table`
\* at time t, with `id` the next primary key and `salt` the hasher's salt:
\* the exception raised ("" for none), the table afterwards, the row returned
create_user_result(email, password, kwargs, table, t, id, salt) ==
    IF Falsy(email)
    THEN [exc |-> "ValueError", table |-> table, row |-> {}]
    ELSE IF Falsy(kwargs.username)
    THEN [exc |-> "ValueError", table |-> table, row |-> {}]
    ELSE LET account == set_password(
                 NewAccount(normalize_email(email), kwargs.username),
                 password, salt)
             row == Stamped(account, t, id)
         IN  IF UniqueOk(row, table)
             THEN [exc |-> "", table |-> Put(table, row), row |-> {row}]
             ELSE [exc |-> "IntegrityError", table |-> table, row |-> {}]

\* a plausible slip: the flag is set on the instance and never saved
create_superuser_unsaved(email, password, kwargs, table, t, id, salt) ==
    create_user_result(email, password, kwargs, table, t, id, salt)

\* AccountManager.create_superuser(email, password, **kwargs): create_user,
\* then is_admin = True and a second save (at t + 1)
create_superuser_result(email, password, kwargs, table, t, id, salt) ==
    LET r == create_user_result(email, password, kwargs, table, t, id, salt)
    IN  IF r.exc # "" THEN r
        ELSE LET a == CHOOSE x \in r.row : TRUE
                 row == Stamped([a EXCEPT !.is_admin = TRUE], t + 1, id)
             IN  [exc |-> "", table |-> Put(r.table, row), row |-> {row}]

\* the arguments callers of the manager pass: email, password and the
\* keyword arguments (username; one caller also passes timestamps; one passes
\* no password)
ManagerArgs ==
    {[NoData EXCEPT !.email = "a@x.com", !.username = "alice",
                    !.password = "pw1"],
     [NoData EXCEPT !.email = "a@X.COM", !.username = "bob",
                    !.password = "pw1"],
     [NoData EXCEPT !.email = "b@x.com", !.username = "bob",
                    !.password = "pw1"],
     [NoData EXCEPT !.email = "b@x.com", !.username = "alice",
                    !.password = "pw1", !.created_at = 0, !.updated_at = 0],
     [NoData EXCEPT !.username = "alice", !.password = "pw1"],
     [NoData EXCEPT !.email = "", !.username = "bob", !.password = "pw1"],
     [NoData EXCEPT !.email = "a@x.com", !.password = "pw1"]}

\* the validated data a caller passes to the serializer's update
UpdateData ==
    {NoData,
     [NoData EXCEPT !.tagline = "hi"],
     [NoData EXCEPT !.username = "bob"],
     [NoData EXCEPT !.password = "pw2", !.confirm_password = "pw2"],
     [NoData EXCEPT !.password = "pw1", !.confirm_password = "pw1"],
     [NoData EXCEPT !.password = "pw2"],
     [NoData EXCEPT !.confirm_password = "pw2"],
     [NoData EXCEPT !.username = "bob", !.password = "pw2",
                    !.confirm_password = "pw1"],
     [NoData EXCEPT !.username = "bob", !.tagline = "hi",
                    !.password = "pw2", !.confirm_password = "pw2"],
     [NoData EXCEPT !.created_at = 0, !.updated_at = 0],
     [NoData EXCEPT !.tagline = "hi", !.password = "pw2",
                    !.confirm_password = "pw2", !.created_at = 0,
                    !.updated_at = 0]}

----------------------------------------------------------------------------
(* AccountSerializer *)

\* password and confirm_password, declared on the class: write_only,
\* required = False
DeclaredFields == {"password", "confirm_password"}
WriteOnlyFields == {"password", "confirm_password"}

\* Meta.fields
MetaFields ==
    {"id", "email", "user_name", "created_at", "updated_at", "first_name",
     "last_name", "tagline", "password", "confirm_password"}

\* Meta.read_only_fields, and the primary key, which a ModelSerializer never
\* writes
ReadOnlyFields == {"id", "created_at", "updated_at"}

\* ModelSerializer builds a field for every name in Meta.fields when the
\* serializer's fields are first used (is_valid, data); a name that is neither
\* declared on the class nor an attribute of Meta.model raises
\* ImproperlyConfigured
fields_exc ==
    IF MetaFields \subseteq DeclaredFields \cup ModelFields
    THEN "" ELSE "ImproperlyConfigured"

\* serializer.data for one instance (to_representation): every field of
\* Meta.fields that is not write_only, read from the instance
to_representation(account) ==
    IF fields_exc # "" THEN [exc |-> fields_exc, body |-> {}]
    ELSE [exc |-> "",
          body |-> {[k \in MetaFields \ WriteOnlyFields |-> account[k]]}]

\* the model fields the serializer requires of the input: those in Meta.fields
\* that are writable and whose column has neither blank=True nor a default
RequiredFields ==
    (MetaFields \cap {"email", "username"}) \ ReadOnlyFields

\* serializer.is_valid() on `data`, for a create (instance = {}) or an update
\* (instance = {the row}); `partial` is PATCH.  validated_data keeps the
\* writable fields of Meta.fields that the input holds.
is_valid(data, instance, partial, table) ==
    IF fields_exc # "" THEN [exc |-> fields_exc, valid |-> FALSE, data |-> NoData]
    ELSE LET writable == MetaFields \ ReadOnlyFields
             vd == [k \in DOMAIN data |->
                        IF k \in writable THEN data[k]
                        ELSE IF k \in {"created_at", "updated_at"} THEN NoTs
                        ELSE None]
             missing == {k \in RequiredFields : Falsy(data[k])}
             others == {o \in table : \A i \in instance : o.id # i.id}
             taken ==
                 \/ "email" \in writable /\ \E o \in others : o.email = data.email
                 \/ "username" \in writable
                    /\ \E o \in others : o.username = data.username
         IN  [exc |-> "",
              valid |-> (partial \/ missing = {}) /\ ~taken,
              data |-> vd]

\* a plausible slip: the password is replaced whenever one is supplied
update_result_unconfirmed(instance, validated_data, table, t, salt) ==
    LET a1 == [instance EXCEPT
                 !.username = IF Has(validated_data, "username")
                              THEN validated_data.username ELSE @,
                 !.tagline = IF Has(validated_data, "tagline")
                             THEN validated_data.tagline ELSE @]
        row1 == Stamped(a1, t, 0)
        password == validated_data.password
        row2 == Stamped(set_password(row1, password, salt), t + 1, 0)
    IN  IF ~UniqueOk(row1, table)
        THEN [exc |-> "IntegrityError", table |-> table, row |-> {}, saves |-> 0]
        ELSE IF ~Falsy(password)
        THEN [exc |-> "", table |-> Put(table, row2), row |-> {row2}, saves |-> 2]
        ELSE [exc |-> "", table |-> Put(table, row1), row |-> {row1}, saves |-> 1]

\* AccountSerializer.update(instance, validated_data) against `table` at time
\* t: username and tagline are assigned and saved; the password is replaced
\* and saved again (at t + 1) when password and confirm_password are both
\* given and equal.  `saves` counts the saves that were made.
update_result(instance, validated_data, table, t, salt) ==
    LET a1 == [instance EXCEPT
                 !.username = IF Has(validated_data, "username")
                              THEN validated_data.username ELSE @,
                 !.tagline = IF Has(validated_data, "tagline")
                             THEN validated_data.tagline ELSE @]
        row1 == Stamped(a1, t, 0)
        password == validated_data.password
        confirm_password == validated_data.confirm_password
        row2 == Stamped(set_password(row1, password, salt), t + 1, 0)
    IN  IF ~UniqueOk(row1, table)
        THEN [exc |-> "IntegrityError", table |-> table, row |-> {}, saves |-> 0]
        ELSE IF ~Falsy(password) /\ ~Falsy(confirm_password)
                /\ password = confirm_password
        THEN [exc |-> "", table |-> Put(table, row2), row |-> {row2}, saves |-> 2]
        ELSE [exc |-> "", table |-> Put(table, row1), row |-> {row1}, saves |-> 1]

----------------------------------------------------------------------------
(* Sessions *)

NoSession == [user |-> Anonymous, hash |-> Plain("")]
\* the session cookies clients hold
SessionIds == {1, 2}

\* request.user of a request that carries session s (0: no session cookie),
\* given the account table and the session store: the session's user while
\* the hash stored in the session is the hash of the user's current password,
\* AnonymousUser otherwise
UserOf(table, sess, s) ==
    IF s = 0 THEN Anonymous
    ELSE IF \E a \in table :
                /\ a.id = sess[s].user
                /\ get_session_auth_hash(a) = sess[s].hash
    THEN sess[s].user
    ELSE Anonymous

RequestUser(s) == UserOf(accounts, sessions, s)

\* a plausible slip: the call after the password change is left out
update_session_auth_hash_skipped(table, s, user, account) == table

\* update_session_auth_hash(request, account), request carrying session s
\* with request.user = user: the session's hash is re-issued from the
\* account's current password when the request's user is that account
update_session_auth_hash(table, s, user, account) ==
    IF s # 0 /\ user = account.id
    THEN [table EXCEPT ![s].hash = get_session_auth_hash(account)]
    ELSE table

----------------------------------------------------------------------------
(* Initial state: an empty table, nobody logged in *)

Init ==
    /\ accounts = {}
    /\ nextId = 1
    /\ now = 1
    /\ nsalt = 0
    /\ sessions = [s \in SessionIds |-> NoSession]
    /\ last = Done("init", "", 0, 0, Anonymous, None, NoData, NoBody, {})

\* Account.objects.create_user(email, password, **kwargs), called directly;
\* password is optional (None by default)
create_user ==
    /\ now < MaxTime
    /\ \E data \in ManagerArgs
                     \cup {[NoData EXCEPT !.email = "a@x.com",
                                          !.username = "alice"]} :
        LET r == create_user_result(data.email, data.password, data, accounts,
                                    now, nextId, nsalt + 1)
        IN  /\ accounts' = r.table
            /\ nextId' = IF r.exc = "" THEN nextId + 1 ELSE nextId
            /\ now' = IF r.exc = "" THEN now + 1 ELSE now
            /\ nsalt' = IF r.exc = "" THEN nsalt + 1 ELSE nsalt
            /\ last' = Done("create_user", r.exc, 0, 0, Anonymous, None, data,
                            NoBody, {})
    /\ UNCHANGED sessions

\* Account.objects.create_superuser(email, password, **kwargs), called
\* directly (the createsuperuser management command does)
create_superuser ==
    /\ now + 2 <= MaxTime
    /\ \E data \in ManagerArgs :
        LET r == create_superuser_result(data.email, data.password, data,
                                         accounts, now, nextId, nsalt + 1)
        IN  /\ accounts' = r.table
            /\ nextId' = IF r.exc = "" THEN nextId + 1 ELSE nextId
            /\ now' = IF r.exc = "" THEN now + 2 ELSE now
            /\ nsalt' = IF r.exc = "" THEN nsalt + 1 ELSE nsalt
            /\ last' = Done("create_superuser", r.exc, 0, 0, Anonymous, None,
                            data, NoBody, {})
    /\ UNCHANGED sessions

\* AccountSerializer(..., context = {'request': request}).update(instance,
\* validated_data), called directly; the request carries session s
serializer_update ==
    /\ \E s \in SessionIds \cup {0}, instance \in accounts,
          validated_data \in UpdateData :
        LET user == RequestUser(s)
            r == update_result(instance, validated_data, accounts, now,
                               nsalt + 1)
        IN  /\ now + r.saves <= MaxTime
            /\ accounts' = r.table
            /\ now' = now + r.saves
            /\ nsalt' = IF r.saves = 2 THEN nsalt + 1 ELSE nsalt
            /\ sessions' =
                 IF r.exc # "" THEN sessions
                 ELSE update_session_auth_hash(
                          sessions, s, user, CHOOSE x \in r.row : TRUE)
            /\ last' = Done("serializer.update", r.exc, 0, s, user,
                            instance.username,
                            validated_data, NoBody, {instance})
    /\ UNCHANGED nextId

----------------------------------------------------------------------------
(* Logging in (django.contrib.auth), which gives a client's requests a user *)

\* a client logs in with an account's password and is given a new session,
\* which stores the hash of the account's password as it is then
login ==
    \E s \in SessionIds, a \in accounts, password \in Passwords :
        /\ sessions[s] = NoSession
        /\ \A t \in SessionIds : t < s => sessions[t] # NoSession
        /\ check_password(a, password)
        /\ sessions' = [sessions EXCEPT
                          ![s] = [user |-> a.id,
                                  hash |-> get_session_auth_hash(a)]]
        /\ last' = Done("login", "", 0, s, a.id, a.username, NoData, NoBody,
                        {a})
        /\ UNCHANGED <<accounts, nextId, now, nsalt>>

----------------------------------------------------------------------------
(* AccountViewSet: permissions *)

SAFE_METHODS == {"GET", "HEAD", "OPTIONS"}

\* an entry of the tuple get_permissions returns: the permission class, and
\* whether the entry is an instance of it (AllowAny()) or the class itself
Perm(cls, instance) == [cls |-> cls, instance |-> instance]

\* a plausible slip: POST is not exempted
get_permissions_post_closed(method) ==
    IF method \in SAFE_METHODS
    THEN <<Perm("AllowAny", TRUE)>>
    ELSE <<Perm("IsAuthenticated", FALSE), Perm("IsAccountOwner", TRUE)>>

\* AccountViewSet.get_permissions
get_permissions(method) ==
    IF method \in SAFE_METHODS
    THEN <<Perm("AllowAny", TRUE)>>
    ELSE IF method = "POST"
    THEN <<Perm("AllowAny", TRUE)>>
    ELSE <<Perm("IsAuthenticated", FALSE), Perm("IsAccountOwner", TRUE)>>

\* IsAccountOwner.has_object_permission(request, view, account)
IsAccountOwner(user, account) ==
    user # Anonymous /\ user = account.id

\* permission.has_permission(request, view)
has_permission(perm, user) ==
    CASE perm.cls = "AllowAny" -> TRUE
      [] perm.cls = "IsAuthenticated" -> user # Anonymous
      [] perm.cls = "IsAccountOwner" -> TRUE

\* permission.has_object_permission(request, view, obj)
has_object_permission(perm, user, account) ==
    CASE perm.cls = "AllowAny" -> TRUE
      [] perm.cls = "IsAuthenticated" -> TRUE
      [] perm.cls = "IsAccountOwner" -> IsAccountOwner(user, account)

\* APIView.check_permissions over the tuple, in order: calling has_permission
\* on an entry that is a class, not an instance, raises TypeError; an entry
\* that refuses raises PermissionDenied
RECURSIVE check_permissions(_, _)
check_permissions(perms, user) ==
    IF perms = <<>> THEN ""
    ELSE IF ~Head(perms).instance THEN "TypeError"
    ELSE IF ~has_permission(Head(perms), user) THEN "PermissionDenied"
    ELSE check_permissions(Tail(perms), user)

\* APIView.check_object_permissions, which get_object calls
RECURSIVE check_object_permissions(_, _, _)
check_object_permissions(perms, user, account) ==
    IF perms = <<>> THEN ""
    ELSE IF ~Head(perms).instance THEN "TypeError"
    ELSE IF ~has_object_permission(Head(perms), user, account)
    THEN "PermissionDenied"
    ELSE check_object_permissions(Tail(perms), user, account)

\* the status of the response to a request whose handling raised `exc`:
\* REST framework answers PermissionDenied and Http404 itself, any other
\* exception is a server error
ExcStatus(exc) ==
    CASE exc = "PermissionDenied" -> 403
      [] exc = "Http404" -> 404
      [] OTHER -> 500

----------------------------------------------------------------------------
(* AccountViewSet: the request handlers.  A request carries a session s (0:  *)
(* none); permissions are checked before the handler runs.                   *)

\* what clients POST to /api/v1/accounts/
CreateRequests ==
    {[NoData EXCEPT !.email = "a@x.com", !.username = "alice",
                    !.password = "pw1", !.confirm_password = "pw1"],
     [NoData EXCEPT !.email = "a@X.COM", !.username = "bob",
                    !.password = "pw1"],
     [NoData EXCEPT !.username = "alice", !.password = "pw1"],
     [NoData EXCEPT !.email = "b@x.com", !.username = "bob",
                    !.password = "pw2", !.confirm_password = "pw2",
                    !.created_at = 0, !.updated_at = 0]}

\* what clients PUT or PATCH to /api/v1/accounts/{username}/
UpdateRequests ==
    {[NoData EXCEPT !.tagline = "hi"],
     [NoData EXCEPT !.email = "a@x.com", !.username = "bob",
                    !.password = "pw2", !.confirm_password = "pw2"],
     [NoData EXCEPT !.password = "pw2", !.confirm_password = "pw1",
                    !.created_at = 0, !.updated_at = 0]}

Response(exc, status, body, table, saves, sess) ==
    [exc |-> exc, status |-> status, body |-> body, table |-> table,
     saves |-> saves, sessions |-> sess]

Raised(exc) == Response(exc, ExcStatus(exc), NoBody, accounts, 0, sessions)

\* the JSON object a dict of validated data is rendered as
AsBody(data) == {[k \in Keys(data) |-> data[k]]}

HTTP_201_CREATED == 201
HTTP_400_BAD_REQUEST == 400

\* AccountViewSet.create(request)
create_response(data) ==
    LET v == is_valid(data, {}, FALSE, accounts)
        r == create_user_result(v.data.email, v.data.password, v.data,
                                accounts, now, nextId, nsalt + 1)
        account == CHOOSE x \in r.row : TRUE
        row == Stamped(set_password(account, data.password, nsalt + 2),
                       now + 1, 0)
    IN  IF v.exc # "" THEN Raised(v.exc)
        ELSE IF v.valid
        THEN IF r.exc # "" THEN Raised(r.exc)
             ELSE Response("", HTTP_201_CREATED, AsBody(v.data),
                           Put(r.table, row), 2, sessions)
        ELSE Response("", HTTP_400_BAD_REQUEST,
                      {[status |-> "Bad request",
                        message |-> "Account could not be created with received data."]},
                      accounts, 0, sessions)

\* ListModelMixin.list: the representation of every row
list_response ==
    LET reps == {to_representation(a) : a \in accounts}
    IN  IF \E r \in reps : r.exc # ""
        THEN Raised((CHOOSE r \in reps : r.exc # "").exc)
        ELSE Response("", 200, UNION {r.body : r \in reps}, accounts, 0,
                      sessions)

\* RetrieveModelMixin.retrieve, lookup_field = 'username'
retrieve_response(perms, user, username) ==
    LET rows == ByUsername(username)
        account == CHOOSE x \in rows : TRUE
        rep == to_representation(account)
    IN  IF rows = {} THEN Raised("Http404")
        ELSE IF check_object_permissions(perms, user, account) # ""
        THEN Raised(check_object_permissions(perms, user, account))
        ELSE IF rep.exc # "" THEN Raised(rep.exc)
        ELSE Response("", 200, rep.body, accounts, 0, sessions)

\* UpdateModelMixin.update / partial_update: get_object, is_valid,
\* serializer.save() -> AccountSerializer.update, serializer.data
update_response(perms, s, user, username, data, partial) ==
    LET rows == ByUsername(username)
        account == CHOOSE x \in rows : TRUE
        v == is_valid(data, rows, partial, accounts)
        r == update_result(account, v.data, accounts, now, nsalt + 1)
        row == CHOOSE x \in r.row : TRUE
        rep == to_representation(row)
    IN  IF rows = {} THEN Raised("Http404")
        ELSE IF check_object_permissions(perms, user, account) # ""
        THEN Raised(check_object_permissions(perms, user, account))
        ELSE IF v.exc # "" THEN Raised(v.exc)
        ELSE IF ~v.valid THEN Response("", 400, NoBody, accounts, 0, sessions)
        ELSE IF r.exc # "" THEN Raised(r.exc)
        ELSE IF rep.exc # ""
        THEN Response(rep.exc, 500, NoBody, r.table, r.saves,
                      update_session_auth_hash(sessions, s, user, row))
        ELSE Response("", 200, rep.body, r.table, r.saves,
                      update_session_auth_hash(sessions, s, user, row))

\* DestroyModelMixin.destroy
destroy_response(perms, user, username) ==
    LET rows == ByUsername(username)
        account == CHOOSE x \in rows : TRUE
    IN  IF rows = {} THEN Raised("Http404")
        ELSE IF check_object_permissions(perms, user, account) # ""
        THEN Raised(check_object_permissions(perms, user, account))
        ELSE Response("", 204, NoBody, accounts \ rows, 0, sessions)

\* APIView.dispatch: the permission check, then the handler.  Every save may
\* have been preceded by a set_password, so nsalt moves past every salt used.
Dispatch(op, method, s, username, data, handled) ==
    LET user == RequestUser(s)
        denied == check_permissions(get_permissions(method), user)
        resp == IF denied # "" THEN Raised(denied) ELSE handled
        stored == resp.table \ accounts
    IN  /\ now + resp.saves <= MaxTime
        /\ accounts' = resp.table
        /\ nextId' = nextId + Cardinality({a \in stored : a.id = nextId})
        /\ now' = now + resp.saves
        /\ nsalt' = nsalt + resp.saves
        /\ sessions' = resp.sessions
        /\ last' = Done(op, resp.exc, resp.status, s, user, username, data,
                        resp.body, ByUsername(username))

\* GET /api/v1/accounts/
list ==
    \E s \in SessionIds \cup {0} :
        Dispatch("list", "GET", s, None, NoData, list_response)

\* GET /api/v1/accounts/{username}/
retrieve ==
    \E s \in SessionIds \cup {0}, username \in Usernames :
        Dispatch("retrieve", "GET", s, username, NoData,
                 retrieve_response(get_permissions("GET"), RequestUser(s),
                                   username))

\* POST /api/v1/accounts/
create ==
    \E s \in SessionIds \cup {0}, data \in CreateRequests :
        Dispatch("create", "POST", s, None, data, create_response(data))

\* PUT /api/v1/accounts/{username}/
update ==
    \E s \in SessionIds \cup {0}, username \in Usernames,
       data \in UpdateRequests :
        Dispatch("update", "PUT", s, username, data,
                 update_response(get_permissions("PUT"), s, RequestUser(s),
                                 username, data, FALSE))

\* PATCH /api/v1/accounts/{username}/
partial_update ==
    \E s \in SessionIds \cup {0}, username \in Usernames,
       data \in UpdateRequests :
        Dispatch("partial_update", "PATCH", s, username, data,
                 update_response(get_permissions("PATCH"), s, RequestUser(s),
                                 username, data, TRUE))

\* DELETE /api/v1/accounts/{username}/
destroy ==
    \E s \in SessionIds \cup {0}, username \in Usernames :
        Dispatch("destroy", "DELETE", s, username, NoData,
                 destroy_response(get_permissions("DELETE"), RequestUser(s),
                                  username))

\* The deployed application: accounts come from the manager (the shell, the
\* createsuperuser command), clients log in and send requests to the endpoint
Next ==
    \/ create_user
    \/ create_superuser
    \/ login
    \/ list
    \/ retrieve
    \/ create
    \/ update
    \/ partial_update
    \/ destroy

Spec == Init /\ [][Next]_vars

\* The Python interface of the store and of the serializer, called directly
ApiNext ==
    \/ create_user
    \/ create_superuser
    \/ login
    \/ serializer_update

ApiSpec == Init /\ [][ApiNext]_vars

----------------------------------------------------------------------------
(* Properties.  `last` names the operation of the step that led to a state,  *)
(* so an action formula  last'.op = "x" => ...  speaks of the steps that     *)
(* operation x takes (a step that changes nothing satisfies [][A]_vars).     *)

\* password and confirm_password are both given and equal
Confirmed(data) ==
    /\ ~Falsy(data.password)
    /\ ~Falsy(data.confirm_password)
    /\ data.password = data.confirm_password

\* the e-mail (compared as the table stores it) or the username is held by a
\* row of the table
Taken(data, table) ==
    \E o \in table :
        o.email = normalize_email(data.email) \/ o.username = data.username

ValidTriple(data) ==
    ~Falsy(data.email) /\ ~Falsy(data.username) /\ ~Falsy(data.password)

Ids(table) == {a.id : a \in table}

\* no two rows share an e-mail, a username or an id
UniqueAccounts ==
    \A a, b \in accounts :
        a # b => a.email # b.email /\ a.username # b.username /\ a.id # b.id

\* C1: no stored password is the text a caller supplied
C1_NeverPlaintext ==
    \A a \in accounts :
        \A p \in Passwords \cup {None, ""} : a.password # Plain(p)

\* C1: create_user with a valid triple that collides with no row succeeds,
\* and the row it stores holds the hash of the password, not the password
C1_CreateSucceeds ==
    (/\ last'.op = "create_user"
     /\ ValidTriple(last'.data)
     /\ ~Taken(last'.data, accounts))
    => /\ last'.exc = ""
       /\ \E a \in accounts' \ accounts :
            /\ a.email = normalize_email(last'.data.email)
            /\ a.username = last'.data.username
            /\ a.password # Plain(last'.data.password)
            /\ check_password(a, last'.data.password)
       /\ Cardinality(accounts') = Cardinality(accounts) + 1

\* C1: for every valid (email, username, password) whose email and username
\* are not taken, create succeeds; and in every state reachable by create,
\* create_superuser and password-changing updates, every stored password is a
\* hash, never the plaintext that was supplied
C1_HashedPasswords == []C1_NeverPlaintext /\ [][C1_CreateSucceeds]_vars

C1_Witness ==
    /\ last.op = "serializer.update"
    /\ last.exc = ""
    /\ Confirmed(last.data)
    /\ \E a \in accounts :
         /\ a.id \in Ids(last.before)
         /\ check_password(a, last.data.password)
         /\ a.password # Plain(last.data.password)

\* C2 (as claimed): accounts are unique by e-mail and by username, and a
\* create request whose e-mail or username an account already holds is
\* answered with a 4xx status and adds no account
C2_Step ==
    (/\ last'.op = "create"
     /\ \E o \in accounts :
          o.email = last'.data.email \/ o.username = last'.data.username)
    => /\ last'.status \in 400..499
       /\ accounts' = accounts

C2_DuplicateCreateIs400 == []UniqueAccounts /\ [][C2_Step]_vars

\* C3 (as claimed): a PUT, PATCH or DELETE by a caller who is not the target
\* account is answered 403 Forbidden and changes nothing; only the target
\* account itself can change or delete the row
C3_Step ==
    last'.op \in {"update", "partial_update", "destroy"}
    => \A a \in ByUsername(last'.target) :
         /\ last'.user # a.id => last'.status = 403 /\ accounts' = accounts
         /\ accounts' # accounts => last'.user = a.id

C3_NonOwnerForbidden == [][C3_Step]_vars

MethodOf(op) ==
    CASE op = "create" -> "POST"
      [] op \in {"list", "retrieve"} -> "GET"
      [] op = "update" -> "PUT"
      [] op = "partial_update" -> "PATCH"
      [] op = "destroy" -> "DELETE"

\* C4: a POST, a GET of the list or a GET of one account is never refused on
\* permission grounds, whoever sends it: the permissions chosen for the
\* method let every caller through
C4_Step ==
    last'.op \in {"create", "list", "retrieve"}
    => /\ check_permissions(get_permissions(MethodOf(last'.op)), last'.user) = ""
       /\ \A a \in accounts :
            check_object_permissions(get_permissions(MethodOf(last'.op)),
                                     last'.user, a) = ""
       /\ last'.status \notin {401, 403}
       /\ last'.exc \notin {"PermissionDenied", "NotAuthenticated", "TypeError"}

C4_OpenToAnyCaller == [][C4_Step]_vars

\* an unauthenticated POST got past the permission check: it was the handler
\* that raised
C4_Witness ==
    /\ last.op = "create"
    /\ last.session = 0
    /\ last.user = Anonymous
    /\ last.exc = "ImproperlyConfigured"

\* C6 (as claimed): a create request is answered 400 with an error body and
\* the table unchanged, or 201 with exactly one account added, holding the
\* submitted e-mail and username
C6_Step ==
    last'.op = "create"
    => \/ /\ last'.status = HTTP_400_BAD_REQUEST
          /\ last'.body # NoBody
          /\ accounts' = accounts
       \/ /\ last'.status = HTTP_201_CREATED
          /\ \E a \in accounts' :
               /\ accounts' = accounts \cup {a}
               /\ a \notin accounts
               /\ a.email = normalize_email(last'.data.email)
               /\ a.username = last'.data.username

C6_CreateAllOrNothing == [][C6_Step]_vars

\* C7: when the owner's update changes the password (password and
\* confirm_password match), the request's own session is re-issued and still
\* authenticates as the account, and every other session of the account,
\* issued under the old password and not re-issued, no longer does
C7_Step ==
    (/\ last'.op = "serializer.update"
     /\ last'.exc = ""
     /\ Confirmed(last'.data)
     /\ last'.session # 0
     /\ last'.user \in Ids(last'.before))
    => /\ UserOf(accounts', sessions', last'.session) = last'.user
       /\ sessions'[last'.session].hash # sessions[last'.session].hash
       /\ \A s \in SessionIds \ {last'.session} :
            /\ sessions'[s] = sessions[s]
            /\ sessions[s].user = last'.user
               => UserOf(accounts', sessions', s) = Anonymous

C7_SessionReissued == [][C7_Step]_vars

C7_Witness ==
    /\ last.op = "serializer.update"
    /\ last.exc = ""
    /\ Confirmed(last.data)
    /\ last.session # 0
    /\ last.user \in Ids(last.before)
    /\ RequestUser(last.session) = last.user
    /\ \E s \in SessionIds \ {last.session} :
         sessions[s].user = last.user /\ RequestUser(s) = Anonymous

\* the username and tagline the serializer's update assigns
C8_Assigned(a, b, data) ==
    /\ b.username = IF Has(data, "username") THEN data.username ELSE a.username
    /\ b.tagline = IF Has(data, "tagline") THEN data.tagline ELSE a.tagline

\* C8 (as claimed): the password is replaced exactly when password and
\* confirm_password are present and equal; when they are not, the update
\* does not change the stored account; username and tagline take the
\* supplied value when present
C8_OriginalStep ==
    last'.op = "serializer.update"
    => \A a \in last'.before :
         /\ ~Confirmed(last'.data) => accounts' = accounts
         /\ \A b \in accounts' :
              b.id = a.id
              => /\ (b.password # a.password <=> Confirmed(last'.data))
                 /\ C8_Assigned(a, b, last'.data)

C8_Original == [][C8_OriginalStep]_vars

\* C8 (amended): update always assigns username and tagline (the supplied
\* value, else the current one) and saves them, whether or not a password is
\* given; the password is replaced, by the hash of the new one, exactly when
\* password and confirm_password are present and equal, and is kept
\* otherwise; only when another account holds the new username does the
\* update fail, and then the stored account is unchanged
C8_AmendedStep ==
    last'.op = "serializer.update"
    => \A a \in last'.before :
         IF last'.exc # ""
         THEN /\ accounts' = accounts
              /\ \E o \in accounts :
                   o.id # a.id /\ o.username = last'.data.username
         ELSE \E b \in accounts' :
                /\ b.id = a.id
                /\ accounts' = (accounts \ {a}) \cup {b}
                /\ C8_Assigned(a, b, last'.data)
                /\ b.updated_at > a.updated_at
                /\ IF Confirmed(last'.data)
                   THEN /\ b.password # a.password
                        /\ check_password(b, last'.data.password)
                   ELSE b.password = a.password

C8_Amended == [][C8_AmendedStep]_vars

\* password and confirm_password differ, and the update still renamed the
\* account and kept its password
C8_Witness ==
    /\ last.op = "serializer.update"
    /\ last.exc = ""
    /\ ~Falsy(last.data.password)
    /\ ~Falsy(last.data.confirm_password)
    /\ last.data.password # last.data.confirm_password
    /\ \E a \in last.before, b \in accounts :
         b.id = a.id /\ b.username # a.username /\ b.password = a.password

\* C9: create_user stores is_admin = FALSE; create_superuser fails exactly
\* where create_user fails and stores the row create_user stores, with
\* is_admin = TRUE; no update, direct or through the endpoint, changes
\* is_admin
C9_Step ==
    /\ last'.op = "create_user" /\ last'.exc = ""
       => \A b \in accounts' \ accounts : ~b.is_admin
    /\ last'.op = "create_superuser"
       => LET r == create_user_result(last'.data.email, last'.data.password,
                                      last'.data, accounts, now, nextId,
                                      nsalt + 1)
          IN  /\ last'.exc = r.exc
              /\ r.exc # "" => accounts' = accounts
              /\ r.exc = ""
                 => \E a \in r.row, b \in accounts' \ accounts :
                      /\ accounts' = accounts \cup {b}
                      /\ b.is_admin
                      /\ ~a.is_admin
                      /\ [b EXCEPT !.is_admin = FALSE,
                                   !.updated_at = a.updated_at] = a
                      /\ check_password(b, last'.data.password)
    /\ last'.op \in {"serializer.update", "update", "partial_update"}
       => \A a \in accounts, b \in accounts' :
            b.id = a.id => b.is_admin = a.is_admin

C9_IsAdmin == [][C9_Step]_vars

\* a superuser was created, and an update of it went through
C9_Witness ==
    /\ last.op = "serializer.update"
    /\ last.exc = ""
    /\ \E a \in last.before, b \in accounts :
         b.id = a.id /\ a.is_admin /\ b.is_admin /\ b # a

\* C10: created_at never changes once a row is stored; every save of a row
\* moves updated_at forward; a row's created_at is the time of its first
\* save; timestamps that a caller supplies are never stored
C10_Step ==
    /\ \A a \in accounts, b \in accounts' :
         b.id = a.id
         => /\ b.created_at = a.created_at
            /\ b # a => b.updated_at > a.updated_at
    /\ \A b \in accounts' :
         b.id \notin Ids(accounts)
         => /\ b.created_at = now
            /\ b.updated_at >= b.created_at
            /\ last'.op = "create_superuser" => b.updated_at > b.created_at
    /\ last'.op = "serializer.update" /\ last'.exc = ""
       => \A a \in last'.before : \E b \in accounts' :
            /\ b.id = a.id
            /\ b.updated_at > a.updated_at
            /\ b.updated_at = IF Confirmed(last'.data) THEN now + 1 ELSE now
    /\ Has(last'.data, "created_at")
       => \A b \in accounts' :
            /\ b.created_at # last'.data.created_at
            /\ b.updated_at # last'.data.updated_at

C10_Timestamps == [][C10_Step]_vars

\* an update that supplied timestamps was saved: updated_at moved on,
\* created_at stayed
C10_Witness ==
    /\ last.op = "serializer.update"
    /\ last.exc = ""
    /\ Has(last.data, "created_at")
    /\ \E a \in last.before, b \in accounts :
         /\ b.id = a.id
         /\ b.updated_at > a.updated_at
         /\ b.created_at = a.created_at
         /\ b.created_at # last.data.created_at

====
